---------------------------- MODULE Spec2Model ----------------------------
(* A model of the NeMo ASR transcription service: the HTTP handler of      *)
(* app/main.py, the lazily created ASRInference singleton and its worker   *)
(* pool of app/inference.py, and the pure helpers of app/utils.py          *)
(* (validate_audio, load_token_map, decode_tokens).                        *)
(*                                                                         *)
(* Text is a sequence of one-character strings.  In the decoder examples   *)
(* the Devanagari tokens of the documentation are written with Latin       *)
(* letters: "a" stands for the token at id 5 and "b" for the token at id 2.*)
EXTENDS Integers, Sequences, FiniteSets, TLC

VARIABLES
    \* the files the service reads
    artifact,           \* whether model/stt_hi_conformer_ctc_medium.onnx exists
    token_file,         \* model/tokens.txt
    \* module globals
    inference_instance, \* inference._inference_instance: None or an instance
    instances,          \* the ASRInference objects constructed, by id
    stats,              \* main.stats
    \* one /transcribe request each
    pc,                 \* where the handler's coroutine is suspended
    upload,             \* the uploaded file
    temp_file_path,     \* whether the handler's temp_file_path is set
    cleanup,            \* add_task(cleanup_temp_file, ...) calls made
    inst,               \* the handler's "inference" local: None or an instance
    future,             \* the executor future the handler awaits
    status,             \* the HTTP status answered, 0 while in flight
    response,           \* the transcription answered
    raised,             \* the stage whose exception ended transcribe, or "none"
    \* history of the run
    swallowed,          \* per request, the stages whose exception was caught and replaced
    validate_calls,     \* per request, validate_audio calls
    preprocess_calls,   \* per request, preprocess_audio calls
    run_calls,          \* per request, session.run submissions
    sessions_created,   \* ort.InferenceSession constructions
    init_failures,      \* _initialize_model calls that raised
    load_calls,         \* load_token_map calls made by transcribe
    token_map_assigns,  \* assignments to self.token_map in transcribe
    \* the pure helpers, called on their own
    fn_pc,              \* "idle" | "call" | "done"
    fn_in,              \* the arguments of the helper under check
    fn_out              \* its return value

envVars == <<artifact, token_file>>
globalVars == <<inference_instance, instances, stats>>
requestVars == <<pc, upload, temp_file_path, cleanup, inst, future, status, response, raised>>
historyVars == <<swallowed, validate_calls, preprocess_calls, run_calls, sessions_created,
                 init_failures, load_calls, token_map_assigns>>
serverVars == <<envVars, globalVars, requestVars, historyVars>>
pureVars == <<fn_pc, fn_in, fn_out>>
vars == <<serverVars, pureVars>>

-----------------------------------------------------------------------------
(* Python string primitives                                                *)

\* str.isspace for the characters of the model's alphabet
IsSpace(c) == c \in {" ", "\t", "\n"}

IsDigit(c) == c \in {"0", "1", "2", "3", "4", "5", "6", "7", "8", "9"}

DigitVal(c) ==
    CASE c = "0" -> 0 [] c = "1" -> 1 [] c = "2" -> 2 [] c = "3" -> 3
      [] c = "4" -> 4 [] c = "5" -> 5 [] c = "6" -> 6 [] c = "7" -> 7
      [] c = "8" -> 8 [] c = "9" -> 9

RECURSIVE LStrip(_)
LStrip(s) == IF s # <<>> /\ IsSpace(Head(s)) THEN LStrip(Tail(s)) ELSE s

RECURSIVE RStrip(_)
RStrip(s) ==
    IF s # <<>> /\ IsSpace(s[Len(s)]) THEN RStrip(SubSeq(s, 1, Len(s) - 1)) ELSE s

\* str.strip()
Strip(s) == RStrip(LStrip(s))

\* the position of the first ' ' of s, 0 when there is none
RECURSIVE FindSpaceFrom(_, _)
FindSpaceFrom(s, i) ==
    IF i > Len(s) THEN 0
    ELSE IF s[i] = " " THEN i
    ELSE FindSpaceFrom(s, i + 1)

\* str.split(' ', 1): one part when s holds no ' ', else the text before
\* the first ' ' and all the text after it
SplitFirstSpace(s) ==
    LET i == FindSpaceFrom(s, 1) IN
    IF i = 0 THEN <<s>>
    ELSE <<SubSeq(s, 1, i - 1), SubSeq(s, i + 1, Len(s))>>

\* whether int(s) returns: surrounding whitespace is ignored, the rest is a
\* non-empty run of digits
IntParses(s) ==
    LET t == Strip(s) IN t # <<>> /\ \A i \in 1..Len(t) : IsDigit(t[i])

RECURSIVE DigitsValue(_)
DigitsValue(t) ==
    IF t = <<>> THEN 0
    ELSE 10 * DigitsValue(SubSeq(t, 1, Len(t) - 1)) + DigitVal(t[Len(t)])

\* int(s) where it returns
IntOf(s) == DigitsValue(Strip(s))

\* str.split(): the maximal runs of non-whitespace characters
RECURSIVE SplitWords(_, _, _)
SplitWords(s, cur, acc) ==
    IF s = <<>> THEN (IF cur = <<>> THEN acc ELSE Append(acc, cur))
    ELSE IF IsSpace(Head(s))
         THEN SplitWords(Tail(s), <<>>, IF cur = <<>> THEN acc ELSE Append(acc, cur))
         ELSE SplitWords(Tail(s), Append(cur, Head(s)), acc)

\* ' '.join(words)
RECURSIVE JoinSpace(_)
JoinSpace(words) ==
    IF words = <<>> THEN <<>>
    ELSE IF Len(words) = 1 THEN words[1]
    ELSE words[1] \o <<" ">> \o JoinSpace(Tail(words))

\* ''.join(tokens)
RECURSIVE Concat(_)
Concat(tokens) == IF tokens = <<>> THEN <<>> ELSE Head(tokens) \o Concat(Tail(tokens))

\* max(keys) of a non-empty set of integers
MaxOf(S) == CHOOSE m \in S : \A k \in S : k <= m

-----------------------------------------------------------------------------
(* app/utils.py: decode_tokens                                             *)

\* numpy arrays of token ids: a 1-d array of frames, or the 0-d array that
\* squeeze() makes of a single frame
Array1(seq) == [ndim |-> 1, data |-> seq]
Array0(id) == [ndim |-> 0, data |-> <<id>>]

\* the fallback blank id of decode_tokens
DefaultBlank == 128

\* prev_token = None
NoToken == -1

\* a decoder whose blank id is the fixed default rather than the table's
\* largest key
blank_token_id_fixed(token_map) == DefaultBlank

\* a decoder whose blank id is 0
blank_token_id_zero(token_map) == 0

\* blank_token_id = max(token_map.keys()) if token_map else 128
blank_token_id(token_map) ==
    IF DOMAIN token_map # {} THEN MaxOf(DOMAIN token_map) ELSE DefaultBlank

\* a loop in which only an emitted id becomes prev_token
RECURSIVE DecodeLoopPrevEmitted(_, _, _, _, _)
DecodeLoopPrevEmitted(ids, token_map, blank, prev_token, decoded_tokens) ==
    IF ids = <<>> THEN decoded_tokens
    ELSE LET token_id == Head(ids) IN
         IF token_id = blank
         THEN DecodeLoopPrevEmitted(Tail(ids), token_map, blank, NoToken, decoded_tokens)
         ELSE IF token_id = prev_token
         THEN DecodeLoopPrevEmitted(Tail(ids), token_map, blank, prev_token,
                                    decoded_tokens)
         ELSE IF token_id \in DOMAIN token_map
         THEN DecodeLoopPrevEmitted(Tail(ids), token_map, blank, token_id,
                                    Append(decoded_tokens, token_map[token_id]))
         ELSE DecodeLoopPrevEmitted(Tail(ids), token_map, blank, prev_token,
                                    decoded_tokens)

\* the loop body of decode_tokens over the remaining frames
RECURSIVE DecodeLoop(_, _, _, _, _)
DecodeLoop(ids, token_map, blank, prev_token, decoded_tokens) ==
    IF ids = <<>> THEN decoded_tokens
    ELSE LET token_id == Head(ids) IN
         IF token_id = blank
         THEN DecodeLoop(Tail(ids), token_map, blank, NoToken, decoded_tokens)
         ELSE IF token_id = prev_token
         THEN DecodeLoop(Tail(ids), token_map, blank, prev_token, decoded_tokens)
         ELSE DecodeLoop(Tail(ids), token_map, blank, token_id,
                         IF token_id \in DOMAIN token_map
                         THEN Append(decoded_tokens, token_map[token_id])
                         ELSE decoded_tokens)

\* a decoder without the early return that writes "?" for an id the table
\* lacks
decode_tokens_unk(token_ids, token_map) ==
    IF token_ids.ndim = 0 THEN <<>>
    ELSE Concat([i \in 1..Len(token_ids.data) |->
                    IF token_ids.data[i] \in DOMAIN token_map
                    THEN token_map[token_ids.data[i]] ELSE <<"?">>])

\* a decoder that joins the tokens with ' '
decode_tokens_spaced(token_ids, token_map) ==
    IF DOMAIN token_map = {} THEN <<>>
    ELSE IF token_ids.ndim = 0 THEN <<>>
    ELSE JoinSpace(DecodeLoop(token_ids.data, token_map, blank_token_id(token_map),
                              NoToken, <<>>))

\* decode_tokens(token_ids, token_map): the empty table returns "" at once;
\* iterating a 0-d array raises TypeError, which the except clause turns
\* into ""
decode_tokens(token_ids, token_map) ==
    IF DOMAIN token_map = {} THEN <<>>
    ELSE IF token_ids.ndim = 0 THEN <<>>
    ELSE Concat(DecodeLoop(token_ids.data, token_map, blank_token_id(token_map),
                           NoToken, <<>>))

\* whether the body of decode_tokens raised (and the except clause returned "")
decode_raises(token_ids, token_map) ==
    DOMAIN token_map # {} /\ token_ids.ndim = 0

-----------------------------------------------------------------------------
(* app/utils.py: load_token_map                                            *)

EmptyMap == [k \in {} |-> <<>>]

\* token_map[int(idx)] = token
MapPut(token_map, idx, token) ==
    [k \in (DOMAIN token_map) \cup {idx} |-> IF k = idx THEN token ELSE token_map[k]]

\* line = line.strip()
StripLine(raw) == Strip(raw)

\* whether a stripped line adds an entry: it is not empty, it splits in two
\* at its first ' ', and int() accepts the second part (a ValueError is
\* caught and the line skipped)
LineLoads(line) ==
    /\ line # <<>>
    /\ Len(SplitFirstSpace(line)) = 2
    /\ IntParses(SplitFirstSpace(line)[2])

\* one iteration of "async for line in f"
ParseLine(token_map, raw) ==
    LET line == StripLine(raw)
        parts == SplitFirstSpace(line)
    IN IF LineLoads(line)
       THEN MapPut(token_map, IntOf(parts[2]), parts[1])
       ELSE token_map

RECURSIVE ParseLines(_, _)
ParseLines(token_map, lines) ==
    IF lines = <<>> THEN token_map
    ELSE ParseLines(ParseLine(token_map, Head(lines)), Tail(lines))

\* a token file on disk: absent, present but failing to open or decode, or
\* present with its lines
MissingFile == [exists |-> FALSE, readable |-> FALSE, lines |-> <<>>]
UnreadableFile == [exists |-> TRUE, readable |-> FALSE, lines |-> <<>>]
TextFile(lines) == [exists |-> TRUE, readable |-> TRUE, lines |-> lines]

\* whether the body of load_token_map raised (the outer except clause then
\* returns {})
load_raises(file) == file.exists /\ ~file.readable

\* whether load_token_map suspends: os.path.exists is synchronous, the
\* aiofiles calls are awaited
load_suspends(file) == file.exists

\* load_token_map(token_file)
load_token_map(file) ==
    IF ~file.exists THEN EmptyMap
    ELSE IF ~file.readable THEN EmptyMap
    ELSE ParseLines(EmptyMap, file.lines)

-----------------------------------------------------------------------------
(* app/utils.py: validate_audio, preprocess_audio                          *)

\* librosa.load(p, sr=16000)
sample_rate == 16000

\* an audio file as librosa.load sees it: whether it decodes, how many
\* samples it has at 16 kHz, and what is said in it
Audio(readable, nsamples, utt) ==
    [readable |-> readable, nsamples |-> nsamples, utt |-> utt]

\* a validator whose limits are exclusive
is_valid_exclusive(nsamples) ==
    5 * sample_rate < nsamples /\ nsamples < 10 * sample_rate

\* is_valid = 5.0 <= duration <= 10.0, where duration = len(y) / sr
is_valid(nsamples) ==
    5 * sample_rate <= nsamples /\ nsamples <= 10 * sample_rate

\* a validator that accepts every file that decodes
validate_audio_any(audio) == audio.readable

\* validate_audio(path): False when loading raises, else is_valid
validate_audio(audio) == audio.readable /\ is_valid(audio.nsamples)

\* hop_length of the mel spectrogram
hop_length == 160

\* the features of a waveform: what is said, over T = 1 + n // hop_length
\* centred frames (the numeric values of the spectrogram are not modelled)
preprocess_audio(audio) ==
    [utt |-> audio.utt, T |-> 1 + (audio.nsamples \div hop_length)]

\* n_mels of the mel spectrogram
n_mels == 80

\* features.shape after np.expand_dims(normalized_features, axis=0)
features_shape(audio) == <<1, n_mels, preprocess_audio(audio).T>>

\* The values of the spectrogram are modelled in fixed point: FixedOne
\* stands for 1.0, and 1e-8 is rounded up to the smallest positive number.
FixedOne == 1000
epsilon == 1

RECURSIVE SumOf(_)
SumOf(row) == IF row = <<>> THEN 0 ELSE Head(row) + SumOf(Tail(row))

\* the largest k in lo..hi with k * k <= n
RECURSIVE SqrtBetween(_, _, _)
SqrtBetween(n, lo, hi) ==
    IF lo = hi THEN lo
    ELSE LET mid == (lo + hi + 1) \div 2 IN
         IF mid * mid <= n THEN SqrtBetween(n, mid, hi) ELSE SqrtBetween(n, lo, mid - 1)

\* the square root of a fixed-point square (of n / FixedOne^2)
FixedSqrt(n) == SqrtBetween(n, 0, IF n < 40 * FixedOne THEN n ELSE 40 * FixedOne)

\* log_mel_spec.mean(axis=1) and log_mel_spec.std(axis=1) of one mel band
RowMean(row) == SumOf(row) \div Len(row)

RowStd(row) ==
    LET mean == RowMean(row) IN
    FixedSqrt(SumOf([i \in 1..Len(row) |-> (row[i] - mean) * (row[i] - mean)]) \div Len(row))

\* a normalization that subtracts the mean and does not divide
normalize_row_centered(row) ==
    [i \in 1..Len(row) |-> row[i] - RowMean(row)]

\* (log_mel_spec - mean) / (std + 1e-8), for one mel band
normalize_row(row) ==
    LET mean == RowMean(row)
        std == RowStd(row)
    IN  [i \in 1..Len(row) |-> ((row[i] - mean) * FixedOne) \div (std + epsilon)]

\* the levels of a band, in dB below the loudest cell of the spectrogram
DbLevels == {0 - k * FixedOne : k \in 0..3}

\* one band of librosa.power_to_db(mel_spec, ref=np.max) over k time steps:
\* a silent waveform has a zero spectrogram, which is 0 dB relative to its
\* own maximum in every cell; otherwise any levels
log_mel_rows(audio, k) ==
    IF audio.utt = "silence" THEN {[i \in 1..k |-> 0]} ELSE [1..k -> DbLevels]

-----------------------------------------------------------------------------
(* app/inference.py: the session, post-processing                          *)

\* the vocabulary of the exported model: token i of the list has id i - 1,
\* and the blank id is the length of the list
Vocabulary == <<"a", "b">>
ModelBlank == Len(Vocabulary)

\* the frames of a spoken clip: "a" twice, "b", blank
SpeechPattern == <<0, 0, 1, ModelBlank>>

\* session.run(None, ort_inputs)[0] followed by argmax over the vocabulary
\* axis: the external engine, a deterministic function of its input.
\* Silence gives the blank id in every frame.  Output frames are scaled to
\* one per 250 feature frames: a 5 s clip gives 2 of them, a 10 s clip 4.
AcousticModel(features) ==
    LET n == features.T \div 250 IN
    [i \in 1..n |-> IF features.utt = "silence" THEN ModelBlank
                    ELSE SpeechPattern[((i - 1) % Len(SpeechPattern)) + 1]]

\* np.argmax(logits, axis=-1).squeeze(): a single frame becomes a 0-d array
Squeeze(frames) == IF Len(frames) = 1 THEN Array0(frames[1]) ELSE Array1(frames)

NoSpeech ==
    <<"[", "N", "o", " ", "s", "p", "e", "e", "c", "h", " ",
      "d", "e", "t", "e", "c", "t", "e", "d", "]">>

\* a post-processor that returns the normalised text as it is
post_process_no_sentinel(text) == Strip(JoinSpace(SplitWords(text, <<>>, <<>>)))

\* ASRInference._post_process_text
post_process_text(text) ==
    LET t == JoinSpace(SplitWords(text, <<>>, <<>>)) IN
    IF Strip(t) = <<>> THEN NoSpeech ELSE Strip(t)

\* _inference_instance = None
None == 0

\* ThreadPoolExecutor(max_workers=2)
max_workers == 2

\* an initialiser that logs a missing artifact and returns
initialize_never_raises(exists) == FALSE

\* _initialize_model raises FileNotFoundError when the artifact is missing
initialize_raises(exists) == ~exists

\* the object ASRInference.__init__ leaves behind: session and token_map
\* None, a fresh executor, then the session _initialize_model loaded
NewInference(exists) ==
    [session |-> IF exists THEN "loaded" ELSE "None",
     token_map_none |-> TRUE,
     token_map |-> EmptyMap,
     queue |-> <<>>,
     running |-> {}]

\* a getter that constructs on every call
needs_instance_always(current) == TRUE

\* get_inference_instance: "if _inference_instance is None"
needs_instance(current) == current = None

\* an executor that starts every submitted call at once
worker_available_unbounded(running) == TRUE

\* the executor runs a queued call when fewer than max_workers are running
worker_available(running) == Cardinality(running) < max_workers

\* an inference wrapper whose except clause logs and returns
run_inference_never_raises(fut) == FALSE

\* _run_inference re-raises what session.run raised
run_inference_raises(fut) == fut.state = "failed"

\* transcribe: "if self.token_map is None"
needs_token_map(me) == me.token_map_none

-----------------------------------------------------------------------------
(* The service: requests, the singleton, the worker pool                   *)

\* the /transcribe requests of a run
NumRequests == 2

Requests == 1..NumRequests

\* the concurrent callers of a run that exercises the worker pool
NumCallers == 3

Callers == 1..NumCallers

\* an upload: its content type and file name as main.transcribe tests them,
\* whether it exceeds 10 MB, and the audio in it
Upload(content_type_audio, wav_name, too_large, audio) ==
    [content_type_audio |-> content_type_audio, wav_name |-> wav_name,
     too_large |-> too_large, audio |-> audio]

NoAudio == Audio(FALSE, 0, "silence")

\* text/plain named .txt and named .wav, an audio type without a .wav name,
\* an oversized file, a file that does not decode, clips of 3 s and 12 s, and
\* silent and spoken clips of 5 s and 10 s
Uploads ==
    { Upload(FALSE, FALSE, FALSE, NoAudio),
      Upload(FALSE, TRUE, FALSE, NoAudio),
      Upload(TRUE, FALSE, FALSE, NoAudio),
      Upload(TRUE, TRUE, TRUE, NoAudio),
      Upload(TRUE, TRUE, FALSE, NoAudio),
      Upload(TRUE, TRUE, FALSE, Audio(TRUE, 3 * sample_rate, "speech")),
      Upload(TRUE, TRUE, FALSE, Audio(TRUE, 12 * sample_rate, "speech")) }
    \cup { Upload(TRUE, TRUE, FALSE, Audio(TRUE, d * sample_rate, u)) :
             d \in {5, 10}, u \in {"silence", "speech"} }

\* the uploads that pass every check of the handler
ValidUploads ==
    {u \in Uploads : u.content_type_audio /\ u.wav_name /\ ~u.too_large
                      /\ validate_audio(u.audio)}

\* tokens.txt as export_to_onnx.py writes it: "<token> <index>" per
\* vocabulary entry, then "<blk> <len(vocab)>"
ExportedTokenFile ==
    TextFile(<< <<"a", " ", "0">>, <<"b", " ", "1">>, <<"<", "b", "l", "k", ">", " ", "2">> >>)

TokenFiles == {ExportedTokenFile, MissingFile, UnreadableFile}

NoFuture == [state |-> "none", logits |-> <<>>]

\* the process as it starts serving R requests
InitServer(R) ==
    /\ inference_instance = None
    /\ instances = <<>>
    /\ stats = [total_requests |-> 0, successful_transcriptions |-> 0,
                failed_transcriptions |-> 0]
    /\ pc = [r \in R |-> "new"]
    /\ upload = [r \in R |-> Upload(FALSE, FALSE, FALSE, NoAudio)]
    /\ temp_file_path = [r \in R |-> FALSE]
    /\ cleanup = [r \in R |-> 0]
    /\ inst = [r \in R |-> None]
    /\ future = [r \in R |-> NoFuture]
    /\ status = [r \in R |-> 0]
    /\ response = [r \in R |-> <<>>]
    /\ raised = [r \in R |-> "none"]
    /\ swallowed = [r \in R |-> {}]
    /\ validate_calls = [r \in R |-> 0]
    /\ preprocess_calls = [r \in R |-> 0]
    /\ run_calls = [r \in R |-> 0]
    /\ sessions_created = 0
    /\ init_failures = 0
    /\ load_calls = 0
    /\ token_map_assigns = 0

PureIdle == fn_pc = "idle" /\ fn_in = <<>> /\ fn_out = <<>>

Init ==
    /\ artifact \in BOOLEAN
    /\ token_file \in TokenFiles
    /\ InitServer(Requests)
    /\ PureIdle

\* except clauses that schedule no cleanup
Fail_without_cleanup(r, code, stage) ==
    /\ stats' = [stats EXCEPT !.failed_transcriptions = @ + 1]
    /\ status' = [status EXCEPT ![r] = code]
    /\ raised' = [raised EXCEPT ![r] = stage]
    /\ pc' = [pc EXCEPT ![r] = "done"]
    /\ UNCHANGED <<cleanup, response>>

\* the handler's two except clauses: count the failure, schedule the cleanup
\* when a temporary file was made, answer with the status
Fail(r, code, stage) ==
    /\ stats' = [stats EXCEPT !.failed_transcriptions = @ + 1]
    /\ cleanup' = [cleanup EXCEPT ![r] = IF temp_file_path[r] THEN @ + 1 ELSE @]
    /\ status' = [status EXCEPT ![r] = code]
    /\ raised' = [raised EXCEPT ![r] = stage]
    /\ pc' = [pc EXCEPT ![r] = "done"]
    /\ UNCHANGED response

\* a success path that leaves the statistics alone
Succeed_uncounted(r, text) ==
    /\ cleanup' = [cleanup EXCEPT ![r] = @ + 1]
    /\ status' = [status EXCEPT ![r] = 200]
    /\ response' = [response EXCEPT ![r] = text]
    /\ pc' = [pc EXCEPT ![r] = "done"]
    /\ UNCHANGED <<stats, raised>>

\* the handler after transcribe_audio returned
Succeed(r, text) ==
    /\ stats' = [stats EXCEPT !.successful_transcriptions = @ + 1]
    /\ cleanup' = [cleanup EXCEPT ![r] = @ + 1]
    /\ status' = [status EXCEPT ![r] = 200]
    /\ response' = [response EXCEPT ![r] = text]
    /\ pc' = [pc EXCEPT ![r] = "done"]
    /\ UNCHANGED raised

\* a handler that tests the file name only
rejects_upload_by_name(u) == ~u.wav_name

\* the handler's first two checks: the content type holds "audio", and the
\* file name ends in .wav
rejects_upload(u) == ~u.content_type_audio \/ ~u.wav_name

\* main.transcribe up to "await file.read()", for an upload of the set U;
\* requests are numbered in the order they arrive
StartWith(r, U) ==
    /\ pc[r] = "new"
    /\ IF r = 1 THEN TRUE ELSE pc[r - 1] # "new"
    /\ \E u \in U :
        /\ upload' = [upload EXCEPT ![r] = u]
        /\ IF rejects_upload(u)
           THEN /\ stats' = [stats EXCEPT !.total_requests = @ + 1,
                                          !.failed_transcriptions = @ + 1]
                /\ status' = [status EXCEPT ![r] = 400]
                /\ pc' = [pc EXCEPT ![r] = "done"]
           ELSE /\ stats' = [stats EXCEPT !.total_requests = @ + 1]
                /\ pc' = [pc EXCEPT ![r] = "reading"]
                /\ UNCHANGED status
    /\ UNCHANGED <<envVars, inference_instance, instances, temp_file_path, cleanup, inst,
                   future, response, raised, historyVars, pureVars>>

Start(r) == StartWith(r, Uploads)

\* from the end of file.read() to "await validate_audio(temp_file_path)"
AfterRead(r) ==
    /\ pc[r] = "reading"
    /\ IF upload[r].too_large
       THEN /\ Fail(r, 400, "none")
            /\ UNCHANGED <<temp_file_path, validate_calls>>
       ELSE /\ temp_file_path' = [temp_file_path EXCEPT ![r] = TRUE]
            /\ validate_calls' = [validate_calls EXCEPT ![r] = @ + 1]
            /\ pc' = [pc EXCEPT ![r] = "validating"]
            /\ UNCHANGED <<stats, cleanup, status, response, raised>>
    /\ UNCHANGED <<envVars, inference_instance, instances, upload, inst, future, swallowed,
                   preprocess_calls, run_calls, sessions_created, init_failures,
                   load_calls, token_map_assigns, pureVars>>

\* from the end of validate_audio through transcribe_audio to the executor
\* call inside preprocess_audio: the duration gate, get_inference_instance
\* (and ASRInference() on first use), the start of ASRInference.transcribe
AfterValidate(r) ==
    /\ pc[r] = "validating"
    /\ IF ~validate_audio(upload[r].audio)
       THEN /\ Fail(r, 400, "none")
            /\ UNCHANGED <<inference_instance, instances, inst, preprocess_calls,
                           sessions_created, init_failures>>
       ELSE IF needs_instance(inference_instance) /\ initialize_raises(artifact)
       THEN /\ Fail(r, 500, "model_load")
            /\ init_failures' = init_failures + 1
            /\ UNCHANGED <<inference_instance, instances, inst, preprocess_calls,
                           sessions_created>>
       ELSE /\ IF needs_instance(inference_instance)
               THEN /\ instances' = Append(instances, NewInference(artifact))
                    /\ inference_instance' = Len(instances) + 1
                    /\ sessions_created' = sessions_created + (IF artifact THEN 1 ELSE 0)
               ELSE UNCHANGED <<instances, inference_instance, sessions_created>>
            /\ inst' = [inst EXCEPT ![r] = inference_instance']
            /\ preprocess_calls' = [preprocess_calls EXCEPT ![r] = @ + 1]
            /\ pc' = [pc EXCEPT ![r] = "preprocessing"]
            /\ UNCHANGED <<stats, cleanup, status, response, raised, init_failures>>
    /\ UNCHANGED <<envVars, upload, temp_file_path, future, swallowed, validate_calls,
                   run_calls, load_calls, token_map_assigns, pureVars>>

\* from the end of librosa.load in preprocess_audio to the executor call of
\* _run_inference; loading or the feature computation may raise
AfterPreprocess(r) ==
    /\ pc[r] = "preprocessing"
    /\ \E ok \in BOOLEAN :
        IF ~ok
        THEN /\ Fail(r, 500, "preprocess")
             /\ UNCHANGED <<instances, future, run_calls>>
        ELSE IF instances[inst[r]].session = "None"
        THEN /\ Fail(r, 500, "inference")
             /\ UNCHANGED <<instances, future, run_calls>>
        ELSE /\ instances' = [instances EXCEPT ![inst[r]].queue =
                                Append(@, [req |-> r,
                                           input |-> preprocess_audio(upload[r].audio)])]
             /\ future' = [future EXCEPT ![r] = [state |-> "pending", logits |-> <<>>]]
             /\ run_calls' = [run_calls EXCEPT ![r] = @ + 1]
             /\ pc' = [pc EXCEPT ![r] = "inferring"]
             /\ UNCHANGED <<stats, cleanup, status, response, raised>>
    /\ UNCHANGED <<envVars, inference_instance, upload, temp_file_path, inst, swallowed,
                   validate_calls, preprocess_calls, sessions_created, init_failures,
                   load_calls, token_map_assigns, pureVars>>

\* a worker thread of the instance's executor takes the oldest queued call
WorkerStart(i) ==
    /\ instances[i].queue # <<>>
    /\ worker_available(instances[i].running)
    /\ instances' = [instances EXCEPT ![i].queue = Tail(@),
                                      ![i].running = @ \cup {Head(instances[i].queue)}]
    /\ UNCHANGED <<envVars, inference_instance, stats, requestVars, historyVars, pureVars>>

\* session.run returns or raises in the worker, which sets the call's future
WorkerFinish(i) ==
    \E item \in instances[i].running, ok \in BOOLEAN :
        /\ instances' = [instances EXCEPT ![i].running = @ \ {item}]
        /\ future' = [future EXCEPT ![item.req] =
                        IF ok THEN [state |-> "done", logits |-> AcousticModel(item.input)]
                        ELSE [state |-> "failed", logits |-> <<>>]]
        /\ UNCHANGED <<envVars, inference_instance, stats, pc, upload, temp_file_path,
                       cleanup, inst, status, response, raised, historyVars, pureVars>>

\* the rest of ASRInference.transcribe once self.token_map is set, and the
\* handler's success path
Finish(r, token_map) ==
    Succeed(r, post_process_text(decode_tokens(Squeeze(future[r].logits), token_map)))

\* self.token_map = <the table load_token_map returned>
SetTokenMap(r) ==
    /\ instances' = [instances EXCEPT ![inst[r]].token_map_none = FALSE,
                                      ![inst[r]].token_map = load_token_map(token_file)]
    /\ token_map_assigns' = token_map_assigns + 1
    /\ swallowed' = [swallowed EXCEPT ![r] =
                        IF load_raises(token_file) THEN @ \cup {"load_token_map"} ELSE @]

\* a transcribe that submits session.run again when it raised
InferenceFailedRetry(r) ==
    /\ instances' = [instances EXCEPT ![inst[r]].queue =
                         Append(@, [req |-> r, input |-> preprocess_audio(upload[r].audio)])]
    /\ future' = [future EXCEPT ![r] = [state |-> "pending", logits |-> <<>>]]
    /\ run_calls' = [run_calls EXCEPT ![r] = @ + 1]
    /\ UNCHANGED <<stats, cleanup, status, response, raised, pc, swallowed, load_calls,
                   token_map_assigns>>

\* session.run raised: _run_inference, transcribe and transcribe_audio log
\* and re-raise, the handler answers 500
InferenceFailed(r) ==
    /\ Fail(r, 500, "inference")
    /\ UNCHANGED <<instances, future, run_calls, swallowed, load_calls, token_map_assigns>>

\* the handler resumes with the future's result: the failure propagates, or
\* transcribe decodes, loading the token map first when it is None.  A
\* missing token file makes load_token_map return without suspending.
AfterInference(r) ==
    /\ pc[r] = "inferring"
    /\ future[r].state \in {"done", "failed"}
    /\ IF run_inference_raises(future[r])
       THEN InferenceFailed(r)
       ELSE IF ~needs_token_map(instances[inst[r]])
       THEN /\ Finish(r, instances[inst[r]].token_map)
            /\ UNCHANGED <<instances, future, run_calls, swallowed, load_calls,
                           token_map_assigns>>
       ELSE IF load_suspends(token_file)
       THEN /\ load_calls' = load_calls + 1
            /\ pc' = [pc EXCEPT ![r] = "loading_tokens"]
            /\ UNCHANGED <<instances, future, run_calls, stats, cleanup, status, response,
                           raised, swallowed, token_map_assigns>>
       ELSE /\ load_calls' = load_calls + 1
            /\ SetTokenMap(r)
            /\ Finish(r, load_token_map(token_file))
            /\ UNCHANGED <<future, run_calls>>
    /\ UNCHANGED <<envVars, inference_instance, upload, temp_file_path, inst,
                   validate_calls, preprocess_calls, sessions_created, init_failures,
                   pureVars>>

\* load_token_map returns: the table is assigned, decoded with, and the
\* handler answers
AfterLoad(r) ==
    /\ pc[r] = "loading_tokens"
    /\ SetTokenMap(r)
    /\ Finish(r, load_token_map(token_file))
    /\ UNCHANGED <<envVars, inference_instance, upload, temp_file_path, inst, future,
                   validate_calls, preprocess_calls, run_calls, sessions_created,
                   init_failures, load_calls, pureVars>>

\* the model artifact is put in place while the process runs
ArtifactAppears ==
    /\ ~artifact
    /\ artifact' = TRUE
    /\ UNCHANGED <<token_file, globalVars, requestVars, historyVars, pureVars>>

Next ==
    \/ \E r \in Requests : Start(r)
    \/ \E r \in Requests : AfterRead(r)
    \/ \E r \in Requests : AfterValidate(r)
    \/ \E r \in Requests : AfterPreprocess(r)
    \/ \E i \in 1..Len(instances) : WorkerStart(i)
    \/ \E i \in 1..Len(instances) : WorkerFinish(i)
    \/ \E r \in Requests : AfterInference(r)
    \/ \E r \in Requests : AfterLoad(r)
    \/ ArtifactAppears

Spec == Init /\ [][Next]_vars

\* NumCallers concurrent requests with valid clips, the artifact and the
\* token file in place
InitPool ==
    /\ artifact = TRUE
    /\ token_file = ExportedTokenFile
    /\ InitServer(Callers)
    /\ PureIdle

\* three distinct clips that pass every check of the handler
PoolUploads ==
    {u \in ValidUploads : u.audio.utt = "speech" \/ u.audio.nsamples = 5 * sample_rate}

StartValid(r) == StartWith(r, PoolUploads)

NextPool ==
    \/ \E r \in Callers : StartValid(r)
    \/ \E r \in Callers : AfterRead(r)
    \/ \E r \in Callers : AfterValidate(r)
    \/ \E r \in Callers : AfterPreprocess(r)
    \/ \E i \in 1..Len(instances) : WorkerStart(i)
    \/ \E i \in 1..Len(instances) : WorkerFinish(i)
    \/ \E r \in Callers : AfterInference(r)
    \/ \E r \in Callers : AfterLoad(r)

SpecPool == InitPool /\ [][NextPool]_vars

-----------------------------------------------------------------------------
(* The pure helpers, each called once on an argument drawn from a bounded  *)
(* set                                                                     *)

\* the longest frame sequence handed to decode_tokens
MaxFrames == 7

\* the most lines of a token file
MaxLines == 3

SeqsUpTo(S, n) == UNION {[1..k -> S] : k \in 0..n}

\* the ids of the decoder example, and the token each has in a table
DecodeIds == {2, 5, 7}
DecodeToken(id) ==
    CASE id = 5 -> <<"a">> [] id = 2 -> <<"b">> [] OTHER -> <<"<", "b", "l", "k", ">">>

\* every table over a subset of the ids, the empty table included
DecodeTables == {[k \in D |-> DecodeToken(k)] : D \in SUBSET DecodeIds}

DecodeArrays ==
    {Array1(s) : s \in SeqsUpTo(DecodeIds, MaxFrames)} \cup {Array0(i) : i \in DecodeIds}

\* the raw lines a token file is made of: well-formed entries, an entry with
\* the empty token, repeated indices, and lines with a missing or
\* non-numeric index
VocabLines ==
    { <<"a", " ", "1">>, <<"b", " ", "2">>, <<"b", " ", "1">>, <<"a", "b", " ", "1", "2">>,
      <<" ", "1">>, <<" ", "3">>, <<"a">>, <<"a", " ">>, <<"a", " ", "b">>, <<"1">>,
      <<"a", " ", "1", " ", "2">>, <<>> }

VocabFiles ==
    {TextFile(ls) : ls \in SeqsUpTo(VocabLines, MaxLines)} \cup {MissingFile, UnreadableFile}

\* the longest clip handed to validate_audio, in half seconds
MaxHalfSeconds == 24

\* clip lengths in samples: every half second up to the bound, and one
\* sample to either side of each
ClipLengths ==
    {n \in {k * (sample_rate \div 2) + d : k \in 0..MaxHalfSeconds, d \in {-1, 0, 1}} : n >= 0}

ValidateAudios == {Audio(TRUE, n, "speech") : n \in ClipLengths} \cup {NoAudio}

\* the service at rest, before any request
ServerIdle == artifact = TRUE /\ token_file = ExportedTokenFile /\ InitServer(Requests)

InitDecode ==
    /\ ServerIdle
    /\ fn_pc = "call"
    /\ fn_in \in [token_ids : DecodeArrays, token_map : DecodeTables]
    /\ fn_out = <<>>

CallDecode ==
    /\ fn_pc = "call"
    /\ "token_ids" \in DOMAIN fn_in
    /\ fn_out' = decode_tokens(fn_in.token_ids, fn_in.token_map)
    /\ fn_pc' = "done"
    /\ UNCHANGED <<fn_in, serverVars>>

InitVocab ==
    /\ ServerIdle
    /\ fn_pc = "call"
    /\ fn_in \in [token_file : VocabFiles]
    /\ fn_out = <<>>

CallLoadTokenMap ==
    /\ fn_pc = "call"
    /\ "token_file" \in DOMAIN fn_in
    /\ fn_out' = load_token_map(fn_in.token_file)
    /\ fn_pc' = "done"
    /\ UNCHANGED <<fn_in, serverVars>>

InitValidate ==
    /\ ServerIdle
    /\ fn_pc = "call"
    /\ fn_in \in [audio : ValidateAudios]
    /\ fn_out = <<>>

CallValidate ==
    /\ fn_pc = "call"
    /\ "audio" \in DOMAIN fn_in
    /\ fn_out' = validate_audio(fn_in.audio)
    /\ fn_pc' = "done"
    /\ UNCHANGED <<fn_in, serverVars>>

SpecValidate == InitValidate /\ [][CallValidate]_vars
SpecDecode == InitDecode /\ [][CallDecode]_vars
SpecVocab == InitVocab /\ [][CallLoadTokenMap]_vars

\* the time steps of a band that a run normalizes
MaxSteps == 4

\* clips of valid length: 5 s, one sample more, 7.5 s, 10 s, silent and spoken
FeatureAudios ==
    {Audio(TRUE, n, u) : n \in {5 * sample_rate, 5 * sample_rate + 1,
                                15 * (sample_rate \div 2), 10 * sample_rate},
                         u \in {"silence", "speech"}}

InitFeatures ==
    /\ ServerIdle
    /\ fn_pc = "call"
    /\ fn_in \in {[audio |-> a, log_mel_row |-> row] :
                     a \in FeatureAudios,
                     row \in UNION {log_mel_rows(b, k) : b \in FeatureAudios, k \in 2..MaxSteps}}
    /\ fn_in.log_mel_row \in UNION {log_mel_rows(fn_in.audio, k) : k \in 2..MaxSteps}
    /\ fn_out = <<>>

CallPreprocess ==
    /\ fn_pc = "call"
    /\ "log_mel_row" \in DOMAIN fn_in
    /\ fn_out' = [shape |-> features_shape(fn_in.audio),
                  row |-> normalize_row(fn_in.log_mel_row)]
    /\ fn_pc' = "done"
    /\ UNCHANGED <<fn_in, serverVars>>

SpecFeatures == InitFeatures /\ [][CallPreprocess]_vars

-----------------------------------------------------------------------------
(* Properties of decode_tokens, checked under SpecDecode                   *)

\* the frames and the tables of the documented decoder example
ExampleFrames == Array1(<<5, 5, 2, 2, 2, 7, 7>>)
ExampleTable == [k \in {2, 5} |-> DecodeToken(k)]
ExampleTableWithBlank == [k \in {2, 5, 7} |-> DecodeToken(k)]

\* the tokens of the frames that differ from the blank id and from the frame
\* before them and have an entry in the table
RECURSIVE EmittedFrom(_, _, _, _)
EmittedFrom(ids, table, blank, i) ==
    IF i > Len(ids) THEN <<>>
    ELSE (IF /\ ids[i] # blank
             /\ (IF i = 1 THEN TRUE ELSE ids[i - 1] # ids[i])
             /\ ids[i] \in DOMAIN table
          THEN <<table[ids[i]]>> ELSE <<>>) \o EmittedFrom(ids, table, blank, i + 1)

DecodeDone == fn_pc = "done" /\ "token_ids" \in DOMAIN fn_in

\* C1 as stated: decoding [5, 5, 2, 2, 2, 7, 7] with the table {5: "a",
\* 2: "b"} gives "ab"
C1_AsStated ==
    (DecodeDone /\ fn_in.token_ids = ExampleFrames /\ fn_in.token_map = ExampleTable)
        => fn_out = <<"a", "b">>

\* C1, amended: the blank id is the largest key of the table, so with the
\* table {5: "a", 2: "b", 7: "<blk>"} the frames [5, 5, 2, 2, 2, 7, 7] decode
\* to "ab"; for every table whose largest key is 7, frames equal to 7 emit
\* nothing and a run of equal frames emits its token once
C1_DecodeExample ==
    (DecodeDone /\ fn_in.token_ids.ndim = 1 /\ 7 \in DOMAIN fn_in.token_map)
        => /\ fn_out = Concat(EmittedFrom(fn_in.token_ids.data, fn_in.token_map, 7, 1))
           /\ (fn_in.token_ids = ExampleFrames /\ fn_in.token_map = ExampleTableWithBlank)
                 => fn_out = <<"a", "b">>

C1_Witness ==
    /\ DecodeDone
    /\ fn_in.token_ids = ExampleFrames
    /\ fn_in.token_map = ExampleTableWithBlank
    /\ fn_out = <<"a", "b">>

-----------------------------------------------------------------------------
(* Properties of validate_audio, checked under SpecValidate                *)

ValidateDone == fn_pc = "done" /\ "audio" \in DOMAIN fn_in

\* C2: validate_audio accepts every clip whose duration d = n / 16000 has
\* 5.0 <= d <= 10.0, both ends included, and rejects every clip with
\* d < 5.0 or d > 10.0
C2_DurationGate ==
    (ValidateDone /\ fn_in.audio.readable)
        => LET n == fn_in.audio.nsamples IN
           /\ (80000 <= n /\ n <= 160000) => fn_out = TRUE
           /\ (n < 80000 \/ n > 160000) => fn_out = FALSE

C2_Witness ==
    /\ ValidateDone
    /\ fn_in.audio.readable
    /\ fn_in.audio.nsamples \in {80000, 160000}
    /\ fn_out = TRUE

-----------------------------------------------------------------------------
(* Properties of load_token_map, checked under SpecVocab                   *)

VocabDone == fn_pc = "done" /\ "token_file" \in DOMAIN fn_in

\* a line of the documented format "<token><single space><integer index>":
\* a token without spaces, possibly empty, one space, a run of digits
WellFormed(raw) ==
    LET i == FindSpaceFrom(raw, 1) IN
    /\ i > 0
    /\ i < Len(raw)
    /\ \A j \in (i + 1)..Len(raw) : IsDigit(raw[j])

WellFormedIndex(raw) == DigitsValue(SubSeq(raw, FindSpaceFrom(raw, 1) + 1, Len(raw)))

CountWellFormed(lines) == Cardinality({i \in 1..Len(lines) : WellFormed(lines[i])})

\* no two well-formed lines of the file carry the same index
DistinctIndices(lines) ==
    \A i, j \in 1..Len(lines) :
        (i # j /\ WellFormed(lines[i]) /\ WellFormed(lines[j]))
            => WellFormedIndex(lines[i]) # WellFormedIndex(lines[j])

\* C10: on a file with unparsable lines load_token_map returns a table with
\* as many entries as the file has well-formed lines (stated for the files
\* whose well-formed lines carry distinct indices, where entries cannot
\* overwrite one another)
C10_TableSize ==
    (VocabDone /\ fn_in.token_file.readable /\ DistinctIndices(fn_in.token_file.lines))
        => Cardinality(DOMAIN fn_out) = CountWellFormed(fn_in.token_file.lines)

-----------------------------------------------------------------------------
(* Properties of the service, checked under Spec                           *)

InTranscribe(r) == pc[r] \in {"preprocessing", "inferring", "loading_tokens"}

\* C3: a clip whose duration is outside [5, 10] s is rejected before any
\* feature extraction or inference: preprocess_audio is never called and
\* session.run never submitted for it, and the request is answered 400
C3_GateBeforeInference ==
    \A r \in DOMAIN pc :
        LET n == upload[r].audio.nsamples IN
        /\ (preprocess_calls[r] > 0 \/ run_calls[r] > 0 \/ InTranscribe(r))
               => (upload[r].audio.readable /\ 80000 <= n /\ n <= 160000)
        /\ (pc[r] = "done" /\ temp_file_path[r] /\ upload[r].audio.readable
               /\ (n < 80000 \/ n > 160000))
               => (status[r] = 400 /\ preprocess_calls[r] = 0 /\ run_calls[r] = 0)

\* a 3 s clip and a 12 s clip, both validated and rejected, while the
\* artifact and the token file are in place
C3_Witness ==
    \E r, q \in DOMAIN pc :
        /\ upload[r].audio.readable /\ upload[r].audio.nsamples = 48000
        /\ upload[q].audio.readable /\ upload[q].audio.nsamples = 192000
        /\ temp_file_path[r] /\ temp_file_path[q]
        /\ status[r] = 400 /\ status[q] = 400
        /\ preprocess_calls[r] = 0 /\ preprocess_calls[q] = 0

AllBlank(frames) == \A i \in 1..Len(frames) : frames[i] = ModelBlank

\* C4: when every frame the model returns is the blank id, or the decoded
\* text is otherwise empty, transcribe returns the sentinel as a normal
\* result; it never returns the empty string
C4_NoSpeechSentinel ==
    \A r \in DOMAIN pc :
        /\ (pc[r] = "done" /\ future[r].state = "done" /\ AllBlank(future[r].logits))
               => (status[r] = 200 /\ response[r] = NoSpeech)
        /\ (pc[r] = "done" /\ future[r].state = "done" /\ token_file # ExportedTokenFile)
               => (status[r] = 200 /\ response[r] = NoSpeech)
        /\ status[r] = 200
               => (response[r] # <<>> /\ \E i \in 1..Len(response[r]) : ~IsSpace(response[r][i]))

\* a silent clip decoded with the exported table and answered with the
\* sentinel
C4_Witness ==
    \E r \in DOMAIN pc :
        /\ token_file = ExportedTokenFile
        /\ upload[r].audio.utt = "silence"
        /\ future[r].state = "done" /\ Len(future[r].logits) > 1
        /\ AllBlank(future[r].logits)
        /\ status[r] = 200
        /\ response[r] = NoSpeech

\* C6: at most one model session is created per process, and every caller
\* of get_inference_instance gets the same instance
C6_SingleSession ==
    /\ sessions_created <= 1
    /\ Len(instances) <= 1
    /\ \A r \in DOMAIN pc : inst[r] # None => inst[r] = inference_instance

\* two requests in flight that both went through get_inference_instance
\* before either finished
C6_Witness ==
    /\ sessions_created = 1
    /\ \E r, q \in DOMAIN pc :
          /\ r # q
          /\ pc[r] = "preprocessing" /\ pc[q] = "preprocessing"
          /\ inst[r] = inference_instance /\ inst[q] = inference_instance

\* C7: load_token_map runs at most once per process and self.token_map is
\* assigned at most once (stated for a process whose tokens.txt is the
\* exported file)
C7_TokenMapOnce ==
    token_file = ExportedTokenFile => (load_calls <= 1 /\ token_map_assigns <= 1)

StageFailed(r) ==
    \/ raised[r] \in {"model_load", "preprocess", "inference"}
    \/ future[r].state = "failed"
    \/ swallowed[r] # {}

\* C9 as stated: whenever a stage of transcribe raises, the request fails
C9_AsStated ==
    \A r \in DOMAIN pc : (pc[r] = "done" /\ StageFailed(r)) => status[r] = 500

\* C9, amended: a failure of feature extraction, of inference or of the
\* model load propagates to the caller of transcribe as a failure; a failure
\* while reading the vocabulary file is caught in load_token_map, which
\* returns the empty table, and transcribe then returns the sentinel as a
\* normal result
C9_Propagation ==
    \A r \in DOMAIN pc :
        /\ (pc[r] = "done"
               /\ (raised[r] \in {"model_load", "preprocess", "inference"}
                    \/ future[r].state = "failed"))
              => (status[r] = 500 /\ response[r] = <<>>)
        /\ "load_token_map" \in swallowed[r]
              => (status[r] = 200 /\ response[r] = NoSpeech)

\* one request whose session.run raised and was answered 500, another whose
\* vocabulary load raised and was answered with the sentinel
C9_Witness ==
    \E r, q \in DOMAIN pc :
        /\ future[r].state = "failed" /\ status[r] = 500
        /\ "load_token_map" \in swallowed[q] /\ status[q] = 200

-----------------------------------------------------------------------------
(* Properties of the worker pool, checked under SpecPool                   *)

\* the text each clip of the run decodes to with the exported table
ExpectedText(u) ==
    IF u.audio.utt = "silence" THEN NoSpeech
    ELSE IF u.audio.nsamples = 5 * sample_rate THEN <<"a">>
    ELSE <<"a", "b">>

RECURSIVE TotalRunning(_)
TotalRunning(i) ==
    IF i = 0 THEN 0 ELSE Cardinality(instances[i].running) + TotalRunning(i - 1)

\* C5: each caller resumes with the logits computed from its own input, and
\* at no time are more than 2 session.run calls executing
C5_PoolIsolation ==
    /\ TotalRunning(Len(instances)) <= 2
    /\ \A r \in DOMAIN pc :
          /\ future[r].state = "done"
                => future[r].logits = AcousticModel(preprocess_audio(upload[r].audio))
          /\ status[r] = 200 => response[r] = ExpectedText(upload[r])

\* three callers with three different clips awaiting inference at once: two
\* calls executing, the third queued
C5_Witness ==
    /\ Len(instances) = 1
    /\ Cardinality(instances[1].running) = 2
    /\ Len(instances[1].queue) = 1
    /\ \A r \in DOMAIN pc : pc[r] = "inferring"
    /\ \A r, q \in DOMAIN pc : r # q => upload[r] # upload[q]

-----------------------------------------------------------------------------
(* decode_tokens: the empty table, collapsed input, prev_token, the blank   *)

\* C11: with an empty vocabulary table decode_tokens returns the empty
\* string for every array of frame ids, a 0-d array included, and its body
\* does not raise
C11_EmptyTable ==
    (DecodeDone /\ DOMAIN fn_in.token_map = {})
        => /\ fn_out = <<>>
           /\ ~decode_raises(fn_in.token_ids, fn_in.token_map)

C11_Witness ==
    /\ DecodeDone
    /\ DOMAIN fn_in.token_map = {}
    /\ fn_in.token_ids = Array1(<<5, 2, 7>>)
    /\ fn_out = <<>>

\* the largest key of the table, which decode_tokens takes for the blank
TableBlank(table) == MaxOf(DOMAIN table)

\* no two consecutive frames are equal
Collapsed(ids) == \A i \in 1..(Len(ids) - 1) : ids[i] # ids[i + 1]

\* the token strings of the frames the table maps, one after the other
RECURSIVE TokensOf(_, _)
TokensOf(ids, table) ==
    IF ids = <<>> THEN <<>>
    ELSE (IF Head(ids) \in DOMAIN table THEN table[Head(ids)] ELSE <<>>)
         \o TokensOf(Tail(ids), table)

\* C12: for frames without two equal consecutive ids and without the blank
\* id (the table's largest key), decode_tokens returns the token strings of
\* the ids the table maps, one per frame, in order; ids the table lacks
\* contribute nothing
C12_CollapsedInput ==
    (/\ DecodeDone
     /\ fn_in.token_ids.ndim = 1
     /\ Collapsed(fn_in.token_ids.data)
     /\ DOMAIN fn_in.token_map # {}
            => \A i \in 1..Len(fn_in.token_ids.data) :
                   fn_in.token_ids.data[i] # TableBlank(fn_in.token_map))
        => fn_out = TokensOf(fn_in.token_ids.data, fn_in.token_map)

C12_Witness ==
    /\ DecodeDone
    /\ fn_in.token_ids = Array1(<<2, 5, 2, 5>>)
    /\ DOMAIN fn_in.token_map = {2, 7}
    /\ fn_out = <<"b", "b">>

\* C16: an id the table lacks emits nothing and becomes prev_token, the
\* blank resets prev_token: a mapped id that comes back right after one
\* blank frame or one absent id is emitted again, and frames that are all
\* the same absent id emit nothing
C16_PrevToken ==
    (DecodeDone /\ fn_in.token_ids.ndim = 1 /\ DOMAIN fn_in.token_map # {})
        => LET ids == fn_in.token_ids.data
               table == fn_in.token_map
               blank == TableBlank(table)
           IN  /\ fn_out = Concat(EmittedFrom(ids, table, blank, 1))
               /\ (/\ Len(ids) = 3
                   /\ ids[1] = ids[3]
                   /\ ids[1] \in DOMAIN table /\ ids[1] # blank
                   /\ ids[2] = blank \/ ids[2] \notin DOMAIN table)
                      => fn_out = table[ids[1]] \o table[ids[1]]
               /\ (\A i \in 1..Len(ids) : ids[i] = ids[1] /\ ids[i] \notin DOMAIN table)
                      => fn_out = <<>>

C16_Witness ==
    /\ DecodeDone
    /\ fn_in.token_ids = Array1(<<2, 5, 2>>)
    /\ DOMAIN fn_in.token_map = {2, 7}
    /\ fn_out = <<"b", "b">>

\* C18: for a non-empty table the blank is the table's largest key, never
\* the default 128: the token at that key is not emitted for any frames,
\* also when the table lacks the model's blank id 7
C18_MaxKeyIsBlank ==
    (DecodeDone /\ fn_in.token_ids.ndim = 1 /\ DOMAIN fn_in.token_map # {})
        => LET ids == fn_in.token_ids.data
               table == fn_in.token_map
           IN  /\ blank_token_id(table) = TableBlank(table)
               /\ blank_token_id(table) # DefaultBlank
               /\ \A i \in 1..Len(fn_out) : fn_out[i] # Head(table[TableBlank(table)])
               /\ (\A i \in 1..Len(ids) : ids[i] = TableBlank(table)) => fn_out = <<>>

C18_Witness ==
    /\ DecodeDone
    /\ fn_in.token_ids = Array1(<<5, 5, 2, 7, 5>>)
    /\ DOMAIN fn_in.token_map = {2, 5}
    /\ fn_out = <<"b">>

-----------------------------------------------------------------------------
(* load_token_map: the line of an empty token                              *)

\* a line that is one space followed by a run of digits: the empty token
\* and its index
EmptyTokenLine(raw) ==
    /\ Len(raw) >= 2
    /\ raw[1] = " "
    /\ \A j \in 2..Len(raw) : IsDigit(raw[j])

\* C15: load_token_map splits a line at its first space only, and a line
\* whose token is the empty string (one space, then the integer) is loaded:
\* its index is a key of the returned table, mapped to the empty token
\* unless a later line of the file carries the same index
C15_EmptyTokenLoaded ==
    (VocabDone /\ fn_in.token_file.readable)
        => LET lines == fn_in.token_file.lines IN
           \A i \in 1..Len(lines) :
               EmptyTokenLine(lines[i])
                   => /\ WellFormedIndex(lines[i]) \in DOMAIN fn_out
                      /\ (\A j \in (i + 1)..Len(lines) :
                              ~WellFormed(lines[j])
                              \/ WellFormedIndex(lines[j]) # WellFormedIndex(lines[i]))
                            => fn_out[WellFormedIndex(lines[i])] = <<>>

-----------------------------------------------------------------------------
(* The handler: rejected uploads, retries, statistics, cleanup              *)

\* C13: an upload whose content type does not hold "audio" is answered 400
\* at once: no temporary file is made, validate_audio and transcribe_audio
\* are not called, nothing is cleaned up
C13_WrongContentType ==
    \A r \in DOMAIN pc :
        (pc[r] # "new" /\ ~upload[r].content_type_audio)
            => /\ pc[r] = "done"
               /\ status[r] = 400
               /\ ~temp_file_path[r]
               /\ validate_calls[r] = 0
               /\ inst[r] = None
               /\ raised[r] = "none"
               /\ preprocess_calls[r] = 0
               /\ run_calls[r] = 0
               /\ cleanup[r] = 0

\* a text/plain upload named .txt and one named .wav, both answered 400 and
\* counted as failures
C13_Witness ==
    \E r, q \in DOMAIN pc :
        /\ ~upload[r].content_type_audio /\ ~upload[r].wav_name
        /\ ~upload[q].content_type_audio /\ upload[q].wav_name
        /\ status[r] = 400 /\ status[q] = 400
        /\ stats.failed_transcriptions = 2

\* C17: a request submits session.run at most once; when the call raised,
\* the request is answered 500 with that one submission, and the shared
\* instance is still the one the request used, its session still loaded
C17_NoRetry ==
    \A r \in DOMAIN pc :
        /\ run_calls[r] <= 1
        /\ future[r].state = "failed"
              => /\ run_calls[r] = 1
                 /\ inst[r] # None
                 /\ inference_instance = inst[r]
                 /\ instances[inst[r]].session = "loaded"
                 /\ pc[r] \in {"inferring", "done"}
                 /\ pc[r] = "done" => (status[r] = 500 /\ raised[r] = "inference")

\* a request whose session.run raised and was answered 500, and another
\* request answered 200 by the same instance
C17_Witness ==
    \E r, q \in DOMAIN pc :
        /\ future[r].state = "failed" /\ status[r] = 500 /\ run_calls[r] = 1
        /\ status[q] = 200 /\ inst[q] = inst[r] /\ run_calls[q] = 1

\* the requests the handler has counted and not yet answered
InFlight == {r \in DOMAIN pc : pc[r] \notin {"new", "done"}}

\* C19: in every state, under every interleaving of the requests,
\* total_requests = successful_transcriptions + failed_transcriptions + the
\* requests in flight, and each answered request is counted once, as a
\* success or as a failure
C19_StatsAccounting ==
    /\ stats.total_requests = stats.successful_transcriptions
                               + stats.failed_transcriptions + Cardinality(InFlight)
    /\ stats.total_requests = Cardinality({r \in DOMAIN pc : pc[r] # "new"})
    /\ stats.successful_transcriptions
          = Cardinality({r \in DOMAIN pc : pc[r] = "done" /\ status[r] = 200})
    /\ stats.failed_transcriptions
          = Cardinality({r \in DOMAIN pc : pc[r] = "done" /\ status[r] \in {400, 500}})

\* one request answered 200 while another is waiting for its inference
C19_Witness ==
    \E r, q \in DOMAIN pc :
        /\ pc[r] = "done" /\ status[r] = 200
        /\ pc[q] = "inferring"
        /\ stats.total_requests = 2
        /\ stats.successful_transcriptions = 1
        /\ stats.failed_transcriptions = 0

-----------------------------------------------------------------------------
(* preprocess_audio: shape and normalization, checked under SpecFeatures    *)

FeaturesDone == fn_pc = "done" /\ "log_mel_row" \in DOMAIN fn_in

\* one hundredth, the tolerance of "approximately"
Tolerance == FixedOne \div 100

Near(x, y) == x - y <= Tolerance /\ y - x <= Tolerance

ConstantRow(row) == \A i \in 1..Len(row) : row[i] = row[1]

\* the shape is (1, 80, T), with at least one time step
ShapeIsBatchOf80(shape) ==
    Len(shape) = 3 /\ shape[1] = 1 /\ shape[2] = 80 /\ shape[3] >= 1

\* C14 as stated, for the silent waveform: the shape is (1, 80, T) and the
\* normalized band has mean about 0 and standard deviation about 1
C14_AsStated ==
    (FeaturesDone /\ fn_in.audio.utt = "silence")
        => /\ ShapeIsBatchOf80(fn_out.shape)
           /\ Near(RowMean(fn_out.row), 0)
           /\ Near(RowStd(fn_out.row), FixedOne)

\* C14, amended: for every valid length the shape is (1, 80, T) and every
\* normalized band has mean about 0; its standard deviation is about 1 when
\* the band varies over time, and a band that is constant over time (every
\* band of a silent waveform) is normalized to zeros, of standard deviation 0
C14_Normalized ==
    FeaturesDone
        => /\ ShapeIsBatchOf80(fn_out.shape)
           /\ fn_out.shape[3] = 1 + (fn_in.audio.nsamples \div 160)
           /\ Near(RowMean(fn_out.row), 0)
           /\ ~ConstantRow(fn_in.log_mel_row) => Near(RowStd(fn_out.row), FixedOne)
           /\ ConstantRow(fn_in.log_mel_row)
                 => /\ \A i \in 1..Len(fn_out.row) : fn_out.row[i] = 0
                    /\ RowStd(fn_out.row) = 0
           /\ fn_in.audio.utt = "silence" => ConstantRow(fn_in.log_mel_row)

\* a spoken 10 s clip whose band varies: 1001 time steps, unit deviation
C14_Witness ==
    /\ FeaturesDone
    /\ fn_in.audio = Audio(TRUE, 10 * sample_rate, "speech")
    /\ fn_in.log_mel_row = <<0, 0 - FixedOne, 0 - 3 * FixedOne>>
    /\ fn_out.shape = <<1, 80, 1001>>
    /\ Near(RowStd(fn_out.row), FixedOne)

=============================================================================
